---- MODULE Spec2Model ----
(***************************************************************************)
(* The asynchronous grading pipeline of classroom-feedback (src/main.py):  *)
(* the submit and poll handlers, the in-memory asyncio queue, the single   *)
(* worker task process_submission_queue, and the parsing of the grader's   *)
(* response text; with it the admin handlers that set up and activate      *)
(* classrooms, and the two views (get_problems, get_status) that report    *)
(* the most recent submission per problem.                                 *)
(*                                                                         *)
(* Texts are sequences of atoms.  A back-tick is the atom bt, so that the   *)
(* code-fence marker is the three-atom sequence the code searches for; the *)
(* JSON punctuation marks, the words json, null, score, feedback and the   *)
(* numbers are one atom each.                                              *)
(***************************************************************************)
EXTENDS Integers, Sequences, FiniteSets, TLC

VARIABLES
    rows,        \* the Submission table: id -> row, for the rows that exist
    nextId,      \* the next primary key the store hands out
    queue,       \* submission_queue: the jobs not yet dequeued, oldest first
    unfinished,  \* submission_queue._unfinished_tasks
    pc,          \* where the worker task is suspended: get, call, sleep, dead
    held,        \* submission_id of the job the worker holds (0: none)
    gap,         \* half-seconds since the last grading call ended (-1: none ended, or one in flight)
    slept,       \* half-seconds the worker has been in asyncio.sleep
    started,     \* ids for which a grading call has begun (history)
    ended,       \* ids whose grading call is over: returned, raised, or died with the process (history)
    lastCall,    \* the call that ended last: submission id and what the grader did (history)
    reply,       \* the response of the HTTP request served last
    restarted,   \* whether the process has been restarted
    courses,     \* the Course table: the names, by id
    classes,     \* the Classroom table: the rows, by id
    students,    \* the Student table: student id -> classroom_id
    view,        \* the response of the view request (get_problems, get_status) served last
    ptext,       \* parsing specification: the JSON text under test
    pout         \* parsing specification: the results of parsing it bare, fenced and as the one element of a list

vars == <<rows, nextId, queue, unfinished, pc, held, gap, slept, started, ended,
          lastCall, reply, restarted, courses, classes, students, view, ptext, pout>>

machineVars == <<rows, nextId, queue, unfinished, pc, held, gap, slept, started,
                 ended, lastCall, reply, restarted>>

parseVars == <<ptext, pout>>

tableVars == <<courses, classes, students, view>>

----------------------------------------------------------------------------
(* Bounds *)

MaxSubs == 2      \* submissions created in one behaviour
MaxFbLen == 4     \* atoms in a feedback string of the parsing specification
MaxCourses == 2   \* courses set up in one behaviour
MaxClasses == 3   \* classrooms set up in one behaviour

----------------------------------------------------------------------------
(* JSON values as the code sees them after json.loads *)

Num(n) == [t |-> "num", n |-> n, s |-> <<>>]
Str(s) == [t |-> "str", n |-> 0, s |-> s]
Null == [t |-> "null", n |-> 0, s |-> <<>>]

\* The fixed texts of the program, each one atom.
QUEUED_MSG == Str(<<"queued-message">>)
BUSY_MSG == Str(<<"busy-message">>)
DEFAULT_FEEDBACK == Str(<<"feedback-failed">>)

BT == "bt"
Q == "quote"
NL == "nl"
FENCE == <<BT, BT, BT>>
FENCE_JSON == <<BT, BT, BT, "json">>

NumAtoms == {"0", "85", "100", "150", "-5"}

NumVal(a) ==
    CASE a = "0" -> 0
      [] a = "85" -> 85
      [] a = "100" -> 100
      [] a = "150" -> 150
      [] a = "-5" -> 0 - 5

----------------------------------------------------------------------------
(* str.strip, str.startswith, str.replace *)

RECURSIVE LStrip(_)
LStrip(t) == IF t # <<>> /\ Head(t) = NL THEN LStrip(Tail(t)) ELSE t

RECURSIVE RStrip(_)
RStrip(t) ==
    IF t # <<>> /\ t[Len(t)] = NL THEN RStrip(SubSeq(t, 1, Len(t) - 1)) ELSE t

Strip(t) == RStrip(LStrip(t))

StartsWith(t, p) == Len(t) >= Len(p) /\ SubSeq(t, 1, Len(p)) = p

\* Whether p occurs in t at position i.
OccursAt(t, p, i) == i + Len(p) - 1 <= Len(t) /\ SubSeq(t, i, i + Len(p) - 1) = p

\* t from position i on, with every non-overlapping occurrence of p, from
\* the left, removed.
RECURSIVE RemoveFrom(_, _, _)
RemoveFrom(t, p, i) ==
    IF i > Len(t) THEN <<>>
    ELSE IF OccursAt(t, p, i) THEN RemoveFrom(t, p, i + Len(p))
    ELSE <<t[i]>> \o RemoveFrom(t, p, i + 1)

\* t.replace(p, "")
Remove(t, p) == RemoveFrom(t, p, 1)

StripFenceAlways(t) == Remove(Remove(Strip(t), FENCE_JSON), FENCE)

\* if text_res.startswith(fence): both replace calls
Unfence(s) ==
    IF StartsWith(s, FENCE) THEN Remove(Remove(s, FENCE_JSON), FENCE) ELSE s

\* text_res = response.text.strip(), and the removal of the fence markers
StripFence(t) == Unfence(Strip(t))

----------------------------------------------------------------------------
(* json.loads, for documents that are a scalar, an object whose members    *)
(* are scalars, or a list of such values.  A position past the end of the  *)
(* text reads as the atom eof.                                             *)

At(t, i) == IF i >= 1 /\ i <= Len(t) THEN t[i] ELSE "eof"

RECURSIVE SkipWs(_, _)
SkipWs(t, i) == IF At(t, i) = NL THEN SkipWs(t, i + 1) ELSE i

RECURSIVE FindQuote(_, _)
FindQuote(t, i) ==
    IF i > Len(t) THEN 0 ELSE IF t[i] = Q THEN i ELSE FindQuote(t, i + 1)

NoObj == [has |-> {}, score |-> Null, feedback |-> Null]
Fail == [ok |-> FALSE, next |-> 0, isObj |-> FALSE, v |-> Null, obj |-> NoObj]
Parsed(next, isObj, v, obj) ==
    [ok |-> TRUE, next |-> next, isObj |-> isObj, v |-> v, obj |-> obj]

\* The string that opens at position i and closes at position j (0: never).
StringUpTo(t, i, j) ==
    IF j = 0 THEN Fail ELSE Parsed(j + 1, FALSE, Str(SubSeq(t, i + 1, j - 1)), NoObj)

\* A string, a number or null at position i, where the atom a stands.
ScalarOf(t, i, a) ==
    IF a = Q THEN StringUpTo(t, i, FindQuote(t, i + 1))
    ELSE IF a \in NumAtoms THEN Parsed(i + 1, FALSE, Num(NumVal(a)), NoObj)
    ELSE IF a = "null" THEN Parsed(i + 1, FALSE, Null, NoObj)
    ELSE Fail

ParseScalar(t, i) == ScalarOf(t, i, At(t, i))

\* dict assignment: a later member with the same key replaces the earlier.
PutMember(obj, key, v) ==
    IF key = <<"score">>
    THEN [obj EXCEPT !.has = @ \cup {"score"}, !.score = v]
    ELSE IF key = <<"feedback">>
    THEN [obj EXCEPT !.has = @ \cup {"feedback"}, !.feedback = v]
    ELSE obj

\* The members of an object from position i, where a key is expected: the
\* key k, the colon at c, the value m, and at e a comma or the closing brace.
RECURSIVE ParseMembers(_, _, _)

MemberEnd(t, e, obj) ==
    IF At(t, e) = "}" THEN Parsed(e + 1, TRUE, Null, obj)
    ELSE IF At(t, e) = "," THEN ParseMembers(t, SkipWs(t, e + 1), obj)
    ELSE Fail

MemberValue(t, k, m, obj) ==
    IF m.ok THEN MemberEnd(t, SkipWs(t, m.next), PutMember(obj, k.v.s, m.v)) ELSE Fail

MemberColon(t, k, c, obj) ==
    IF At(t, c) = ":" THEN MemberValue(t, k, ParseScalar(t, SkipWs(t, c + 1)), obj)
    ELSE Fail

MemberKey(t, k, obj) ==
    IF k.ok THEN MemberColon(t, k, SkipWs(t, k.next), obj) ELSE Fail

ParseMembers(t, i, obj) ==
    IF At(t, i) = Q THEN MemberKey(t, ParseScalar(t, i), obj) ELSE Fail

\* After the opening brace: the closing brace, or members.
ObjectBody(t, j) ==
    IF At(t, j) = "}" THEN Parsed(j + 1, TRUE, Null, NoObj) ELSE ParseMembers(t, j, NoObj)

\* An object or a scalar at position i.
ParseItem(t, i) ==
    IF At(t, i) = "{" THEN ObjectBody(t, SkipWs(t, i + 1)) ELSE ParseScalar(t, i)

\* The elements of a list from position i; n elements precede, the first of
\* them first.
ListFail == [ok |-> FALSE, next |-> 0, n |-> 0, first |-> Fail]

RECURSIVE ParseElems(_, _, _, _)

ElemEnd(t, e, n, first) ==
    IF At(t, e) = "]" THEN [ok |-> TRUE, next |-> e + 1, n |-> n, first |-> first]
    ELSE IF At(t, e) = "," THEN ParseElems(t, SkipWs(t, e + 1), n, first)
    ELSE ListFail

ElemParsed(t, x, n, first) ==
    IF x.ok THEN ElemEnd(t, SkipWs(t, x.next), n + 1, IF n = 0 THEN x ELSE first)
    ELSE ListFail

ParseElems(t, i, n, first) == ElemParsed(t, ParseItem(t, i), n, first)

\* After the opening bracket: the closing bracket, or elements.
ListBody(t, j) ==
    IF At(t, j) = "]" THEN [ok |-> TRUE, next |-> j + 1, n |-> 0, first |-> Fail]
    ELSE ParseElems(t, j, 0, Fail)

\* json.loads: ok is FALSE where it raises (also on text after the value);
\* kind is obj, list or scalar; for a list, n is its length and item its
\* first element.
BadDoc == [ok |-> FALSE, kind |-> "none", n |-> 0, item |-> Fail]

ListDoc(t, l) ==
    IF l.ok /\ SkipWs(t, l.next) = Len(t) + 1
    THEN [ok |-> TRUE, kind |-> "list", n |-> l.n, item |-> l.first]
    ELSE BadDoc

ItemDoc(t, x) ==
    IF x.ok /\ SkipWs(t, x.next) = Len(t) + 1
    THEN [ok |-> TRUE, kind |-> IF x.isObj THEN "obj" ELSE "scalar", n |-> 0, item |-> x]
    ELSE BadDoc

DocAt(t, i) ==
    IF At(t, i) = "[" THEN ListDoc(t, ListBody(t, SkipWs(t, i + 1)))
    ELSE ItemDoc(t, ParseItem(t, i))

JsonLoads(t) == DocAt(t, SkipWs(t, 1))

\* dict.get(key, default)
Get(obj, key, default) ==
    IF key \in obj.has
    THEN (IF key = "score" THEN obj.score ELSE obj.feedback)
    ELSE default

Raised == [ok |-> FALSE, score |-> Null, feedback |-> Null]

\* res_json.get("score", 0) and res_json.get("feedback", <default>)
Result(obj) ==
    [ok |-> TRUE, score |-> Get(obj, "score", Num(0)),
     feedback |-> Get(obj, "feedback", DEFAULT_FEEDBACK)]

ExtractObjectOnly(d) ==
    IF d.ok /\ d.kind = "obj" THEN Result(d.item.obj) ELSE Raised

\* A list gives its first element, or the empty object; a value that is no
\* object has no get method and the statement raises.
Extract(d) ==
    IF ~d.ok THEN Raised
    ELSE IF d.kind = "list"
    THEN (IF d.n = 0 THEN Result(NoObj)
          ELSE IF d.item.isObj THEN Result(d.item.obj) ELSE Raised)
    ELSE IF d.kind = "obj" THEN Result(d.item.obj)
    ELSE Raised

\* From the response text to the score and feedback the worker assigns;
\* ok is FALSE where a statement of the try block raises.
ParseResponse(text) == Extract(JsonLoads(StripFence(text)))

----------------------------------------------------------------------------
(* Response texts *)

ScorePair(a) == <<Q, "score", Q, ":", a>>
FeedbackPair(s) == <<Q, "feedback", Q, ":", Q>> \o s \o <<Q>>
ObjText(a, s) == <<"{">> \o ScorePair(a) \o <<",">> \o FeedbackPair(s) \o <<"}">>

\* The text wrapped in code-fence markers, as the grading backend wraps it.
Fenced(t) == FENCE_JSON \o <<NL>> \o t \o <<NL>> \o FENCE

\* What the grading backend may answer in the state machine.
GraderTexts ==
    { ObjText("85", <<"a">>),
      ObjText("150", <<"a">>),
      ObjText("null", <<"a">>),
      <<"{">>,
      <<"{">> \o ScorePair("85") \o <<"}">>,
      ObjText("85", FENCE \o <<"a">>),
      Fenced(ObjText("85", FENCE \o <<"a">>)) }

----------------------------------------------------------------------------
(* The store, the queue and the problem catalog *)

RateLimitDelay == 13          \* asyncio.sleep(6.5), in half-seconds

\* problems.yaml as loaded at start: one course with three problems, two of
\* them in chapter A and one in chapter B.
PROBLEMS_BY_COURSE ==
    [c \in {"basic"} |-> {[id |-> 1, chapter |-> "A"],
                          [id |-> 2, chapter |-> "A"],
                          [id |-> 3, chapter |-> "B"]}]

PROBLEMS_DICT == UNION {{q.id : q \in PROBLEMS_BY_COURSE[c]} : c \in DOMAIN PROBLEMS_BY_COURSE}

\* sorted(set(chapter of each problem)), by course
CHAPTERS_BY_COURSE == [c \in DOMAIN PROBLEMS_BY_COURSE |-> <<"A", "B">>]

InCatalogAny(p) == TRUE

\* PROBLEMS_DICT.get(req.problem_id) finds a problem
InCatalog(p) == p \in PROBLEMS_DICT

RequestProblemIds == {1, 4}   \* problem_id of a submit request: known, unknown
RequestStudentIds == {1}      \* student_id of a submit request
RequestCode == "code"         \* code_answer of a submit request

Ids == 1..MaxSubs

NoRow == [student_id |-> 0, problem_id |-> 0, code_answer |-> "", created_at |-> 0,
          status |-> "none", score |-> Null, ai_feedback |-> Null]

\* datetime.now() when a row is constructed.  The handlers run one after the
\* other on the event loop and the clock is finer than a handler is long:
\* the n-th row carries a later time than the rows before it.
Now == nextId

\* Submission(student_id, problem_id, code_answer, status="grading",
\* ai_feedback=<placeholder>), score unset, created_at by default
NewSubmission(st, p, code, now) ==
    [student_id |-> st, problem_id |-> p, code_answer |-> code, created_at |-> now,
     status |-> "grading", score |-> Null, ai_feedback |-> QUEUED_MSG]

\* The primary key the store gives a new row.
AllocIdReused(n) == 1

AllocId(n) == n

FullAtOne(q) == Len(q) >= 1

\* asyncio.Queue.full: the queue is built without maxsize and is never full,
\* so put never waits.
Full(q) == FALSE

QueuePutDropped(q, job) == q

\* asyncio.Queue.put on the unbounded queue
QueuePut(q, job) == Append(q, job)

QueueGetKeeps(q) == [item |-> Head(q), rest |-> q]

QueueGetNewest(q) == [item |-> q[Len(q)], rest |-> SubSeq(q, 1, Len(q) - 1)]

\* asyncio.Queue.get on a queue that is not empty: the oldest item leaves
QueueGet(q) == [item |-> Head(q), rest |-> Tail(q)]

\* asyncio.Queue.task_done: raises ValueError when nothing is unfinished
TaskDone(u) == [raised |-> u <= 0, u |-> IF u <= 0 THEN u ELSE u - 1]

CompletedRowStatusKept(row, res) ==
    [row EXCEPT !.score = res.score, !.ai_feedback = res.feedback]

\* The success path: score, ai_feedback and status assigned from the result
\* and written by one commit.
CompletedRow(row, res) ==
    [row EXCEPT !.score = res.score, !.ai_feedback = res.feedback,
                !.status = "completed"]

FailedRowKept(row) == row

\* The except path: the fixed failure result.
FailedRow(row) ==
    [row EXCEPT !.score = Num(0), !.ai_feedback = BUSY_MSG, !.status = "completed"]

Min(a, b) == IF a < b THEN a ELSE b

Range(q) == {q[k] : k \in 1..Len(q)}

QueuedIds == {j.id : j \in Range(queue)}

NotParsed == [done |-> {}, bare |-> Raised, fenced |-> Raised, listed |-> Raised]

NoReply == [op |-> "none", code |-> 0, id |-> 0, body |-> NoRow]
NoCall == [id |-> 0, raised |-> FALSE, text |-> <<>>]
NoView == [op |-> "none", who |-> 0, code |-> 0, cells |-> <<>>]

Init ==
    /\ rows = <<>>
    /\ nextId = 1
    /\ queue = <<>>
    /\ unfinished = 0
    /\ pc = "get"
    /\ held = 0
    /\ gap = -1
    /\ slept = 0
    /\ started = {}
    /\ ended = {}
    /\ lastCall = NoCall
    /\ reply = NoReply
    /\ restarted = FALSE
    /\ courses = <<>>
    /\ classes = <<>>
    /\ students = <<>>
    /\ view = NoView
    /\ ptext = <<>>
    /\ pout = NotParsed

----------------------------------------------------------------------------
(* HTTP handlers *)

\* POST /api/submit with a problem_id of the catalog: the row is committed
\* and the job put on the queue with no suspension in between.
submit(st, p, code) ==
    /\ InCatalog(p)
    /\ nextId <= MaxSubs
    /\ ~Full(queue)
    /\ LET id == AllocId(nextId)
       IN  /\ rows' = [k \in DOMAIN rows \cup {id} |->
                          IF k = id THEN NewSubmission(st, p, code, Now) ELSE rows[k]]
           /\ queue' = QueuePut(queue, [id |-> id, problem |-> p, code |-> code])
           /\ reply' = [op |-> "submit", code |-> 200, id |-> id,
                        body |-> NewSubmission(st, p, code, Now)]
    /\ nextId' = nextId + 1
    /\ unfinished' = unfinished + 1
    /\ UNCHANGED <<pc, held, gap, slept, started, ended, lastCall, restarted, parseVars, tableVars>>

\* POST /api/submit with a problem_id that is not in the catalog: HTTP 404.
submit_unknown(st, p, code) ==
    /\ ~InCatalog(p)
    /\ reply' = [op |-> "submit", code |-> 404, id |-> 0, body |-> NoRow]
    /\ UNCHANGED <<rows, nextId, queue, unfinished, pc, held, gap, slept, started,
                   ended, lastCall, restarted, parseVars, tableVars>>

\* GET /api/check_submission/{i}: session.get, session.refresh, the row.
check_submission(i) ==
    /\ reply' = IF i \in DOMAIN rows
                THEN [op |-> "poll", code |-> 200, id |-> i, body |-> rows[i]]
                ELSE [op |-> "poll", code |-> 404, id |-> i, body |-> NoRow]
    /\ UNCHANGED <<rows, nextId, queue, unfinished, pc, held, gap, slept, started,
                   ended, lastCall, restarted, parseVars, tableVars>>

----------------------------------------------------------------------------
(* The admin handlers: courses and classrooms *)

\* Classroom(course_id, name, active_chapter); is_active by default
NewClassroom(course_id, name, chapter) ==
    [course_id |-> course_id, name |-> name, active_chapter |-> chapter,
     is_active |-> FALSE]

\* POST /api/system/setup: a course, and a classroom of it for each name,
\* on the first chapter the catalog has for the course name.
setup_system(course_name, class_names) ==
    /\ Len(courses) < MaxCourses
    /\ Len(classes) + Len(class_names) <= MaxClasses
    /\ courses' = Append(courses, course_name)
    /\ LET chapters == IF course_name \in DOMAIN CHAPTERS_BY_COURSE
                       THEN CHAPTERS_BY_COURSE[course_name] ELSE <<>>
           def_chap == IF chapters # <<>> THEN chapters[1] ELSE ""
       IN  classes' = classes \o [k \in 1..Len(class_names) |->
                                    NewClassroom(Len(courses) + 1, class_names[k], def_chap)]
    /\ UNCHANGED <<machineVars, students, view, parseVars>>

KeptActive(cls) == cls

\* for cls in all_classes: cls.is_active = False
DeactivateAll(cls) == [k \in DOMAIN cls |-> [cls[k] EXCEPT !.is_active = FALSE]]

\* POST /api/admin/activate: every classroom is deactivated, then the
\* target, if the store has it, is activated; one commit.
activate_class(classroom_id) ==
    /\ classes' = LET off == DeactivateAll(classes)
                  IN  IF classroom_id \in DOMAIN off
                      THEN [off EXCEPT ![classroom_id].is_active = TRUE]
                      ELSE off
    /\ UNCHANGED <<machineVars, courses, students, view, parseVars>>

\* POST /api/admin/progress: the active chapter of a classroom is set;
\* HTTP 404 for a classroom the store does not have.
update_progress(classroom_id, chapter) ==
    /\ classes' = IF classroom_id \in DOMAIN classes
                  THEN [classes EXCEPT ![classroom_id].active_chapter = chapter]
                  ELSE classes
    /\ UNCHANGED <<machineVars, courses, students, view, parseVars>>

----------------------------------------------------------------------------
(* The views: the most recent submission per problem *)

\* The ids of the catalog problems of the classroom's course that are in
\* the classroom's active chapter.
TargetProblems(c) ==
    LET name == courses[classes[c].course_id]
        course_problems == IF name \in DOMAIN PROBLEMS_BY_COURSE
                           THEN PROBLEMS_BY_COURSE[name] ELSE {}
    IN  {q.id : q \in {x \in course_problems : x.chapter = classes[c].active_chapter}}

\* select(Submission).where(student_id in sts).where(problem_id in pids)
Selected(sts, pids) ==
    {i \in DOMAIN rows : rows[i].student_id \in sts /\ rows[i].problem_id \in pids}

RECURSIVE OrderByCreatedAsc(_)
OrderByCreatedAsc(S) ==
    IF S = {} THEN <<>>
    ELSE LET i == CHOOSE x \in S : \A y \in S : rows[x].created_at <= rows[y].created_at
         IN  <<i>> \o OrderByCreatedAsc(S \ {i})

\* order_by(Submission.created_at.desc()): the ids, the latest row first
RECURSIVE OrderByCreatedDesc(_)
OrderByCreatedDesc(S) ==
    IF S = {} THEN <<>>
    ELSE LET i == CHOOSE x \in S : \A y \in S : rows[y].created_at <= rows[x].created_at
         IN  <<i>> \o OrderByCreatedDesc(S \ {i})

\* The loop that fills sub_map in get_problems: for each problem the first
\* submission of the ordered list is kept (0: the problem has none).
FirstPerProblem(subs, p) ==
    LET ks == {k \in 1..Len(subs) : rows[subs[k]].problem_id = p}
    IN  IF ks = {} THEN 0 ELSE subs[CHOOSE k \in ks : \A m \in ks : k <= m]

\* The loop that fills sub_map in get_status: the first submission of the
\* ordered list for each student and problem.
FirstPerStudentProblem(subs, st, p) ==
    LET ks == {k \in 1..Len(subs) : /\ rows[subs[k]].student_id = st
                                     /\ rows[subs[k]].problem_id = p}
    IN  IF ks = {} THEN 0 ELSE subs[CHOOSE k \in ks : \A m \in ks : k <= m]

\* What get_problems reports for a problem: has_submission, and with a
\* submission its last_code, last_score, last_feedback and status.
ProblemsCell(i) ==
    IF i = 0
    THEN [has |-> FALSE, id |-> 0, status |-> "", score |-> Null, feedback |-> Null,
          code |-> ""]
    ELSE [has |-> TRUE, id |-> 0, status |-> rows[i].status, score |-> rows[i].score,
          feedback |-> rows[i].ai_feedback, code |-> rows[i].code_answer]

\* What get_status reports for a student and a problem: the submission's
\* id, status, score, feedback and code, or the values for no submission.
StatusCell(i) ==
    IF i = 0
    THEN [has |-> FALSE, id |-> 0, status |-> "none", score |-> Num(0),
          feedback |-> Str(<<>>), code |-> ""]
    ELSE [has |-> TRUE, id |-> i, status |-> rows[i].status, score |-> rows[i].score,
          feedback |-> rows[i].ai_feedback, code |-> rows[i].code_answer]

\* GET /api/problems?student_id=st: HTTP 404 without the student (and an
\* unhandled AttributeError, HTTP 500, without the student's classroom);
\* else the problems of the active chapter of the student's classroom, each
\* with the student's most recent submission.
get_problems(st) ==
    /\ view' = IF st \notin DOMAIN students
               THEN [op |-> "problems", who |-> st, code |-> 404, cells |-> <<>>]
               ELSE IF students[st] \notin DOMAIN classes
               THEN [op |-> "problems", who |-> st, code |-> 500, cells |-> <<>>]
               ELSE LET p_ids == TargetProblems(students[st])
                        subs == OrderByCreatedDesc(Selected({st}, p_ids))
                    IN  [op |-> "problems", who |-> st, code |-> 200,
                         cells |-> [k \in {st} \X p_ids |->
                                      ProblemsCell(FirstPerProblem(subs, k[2]))]]
    /\ UNCHANGED <<machineVars, courses, classes, students, parseVars>>

\* GET /api/status?classroom_id=c: nothing for a classroom the store does
\* not have; else, for each student of the classroom and each problem of
\* its active chapter, the student's most recent submission.
get_status(c) ==
    /\ view' = IF c \notin DOMAIN classes
               THEN [op |-> "status", who |-> c, code |-> 200, cells |-> <<>>]
               ELSE LET p_ids == TargetProblems(c)
                        s_ids == {s \in DOMAIN students : students[s] = c}
                        subs == OrderByCreatedDesc(Selected(s_ids, p_ids))
                    IN  [op |-> "status", who |-> c, code |-> 200,
                         cells |-> [k \in s_ids \X p_ids |->
                                      StatusCell(FirstPerStudentProblem(subs, k[1], k[2]))]]
    /\ UNCHANGED <<machineVars, courses, classes, students, parseVars>>

----------------------------------------------------------------------------
(* The worker task *)

\* The finally block: task_done, then asyncio.sleep; a ValueError raised by
\* task_done leaves the loop and ends the task.
Finally(u) ==
    LET td == TaskDone(u)
    IN  [pc |-> IF td.raised THEN "dead" ELSE "sleep", u |-> td.u]

\* queue.get returns a job; the row is looked up.  A missing row: task_done,
\* continue, and the finally block on the way out of the try statement (a
\* ValueError of the first task_done is caught by the except clause, which
\* finds no row).  A row: the grading call begins.
WorkerGet ==
    /\ pc = "get"
    /\ queue # <<>>
    /\ LET job == QueueGet(queue).item
       IN  IF job.id \notin DOMAIN rows
           THEN LET f == Finally(TaskDone(unfinished).u)
                IN  /\ pc' = f.pc
                    /\ unfinished' = f.u
                    /\ UNCHANGED <<held, gap, started>>
           ELSE /\ pc' = "call"
                /\ held' = job.id
                /\ gap' = -1
                /\ started' = started \cup {job.id}
                /\ UNCHANGED unfinished
    /\ queue' = QueueGet(queue).rest
    /\ slept' = 0
    /\ UNCHANGED <<rows, nextId, ended, lastCall, reply, restarted, parseVars, tableVars>>

AppliedToAll(id, res) ==
    [i \in DOMAIN rows |-> IF res.ok THEN CompletedRow(rows[i], res) ELSE FailedRow(rows[i])]

\* The rows after the call for submission id ended with result res.  The row
\* may have been deleted meanwhile: the commit of the success path then
\* raises, and the except path finds no row.
Applied(id, res) ==
    IF id \notin DOMAIN rows THEN rows
    ELSE IF res.ok THEN [rows EXCEPT ![id] = CompletedRow(rows[id], res)]
    ELSE [rows EXCEPT ![id] = FailedRow(rows[id])]

CallEnds(res, what) ==
    /\ pc = "call"
    /\ rows' = Applied(held, res)
    /\ LET f == Finally(unfinished)
       IN  /\ pc' = f.pc
           /\ unfinished' = f.u
    /\ ended' = ended \cup {held}
    /\ lastCall' = [what EXCEPT !.id = held]
    /\ held' = 0
    /\ gap' = 0
    /\ slept' = 0
    /\ UNCHANGED <<nextId, queue, started, reply, restarted, parseVars, tableVars>>

\* generate_content returns a response with this text.
GraderReturns(text) ==
    CallEnds(ParseResponse(text), [id |-> 0, raised |-> FALSE, text |-> text])

\* generate_content raises (network error, quota, blocked response).
GraderRaises ==
    CallEnds(Raised,
             [id |-> 0, raised |-> TRUE, text |-> <<>>])

\* asyncio.sleep(6.5) is over: the next iteration awaits the queue.
WakeUp ==
    /\ pc = "sleep"
    /\ slept >= RateLimitDelay
    /\ pc' = "get"
    /\ slept' = 0
    /\ UNCHANGED <<rows, nextId, queue, unfinished, held, gap, started, ended,
                   lastCall, reply, restarted, parseVars, tableVars>>

----------------------------------------------------------------------------
(* The environment *)

\* Half a second passes.
Tick ==
    /\ \/ gap >= 0 /\ gap < RateLimitDelay
       \/ pc = "sleep" /\ slept < RateLimitDelay
    /\ gap' = IF gap < 0 THEN gap ELSE Min(gap + 1, RateLimitDelay)
    /\ slept' = IF pc = "sleep" THEN Min(slept + 1, RateLimitDelay) ELSE slept
    /\ UNCHANGED <<rows, nextId, queue, unfinished, pc, held, started, ended,
                   lastCall, reply, restarted, parseVars, tableVars>>

\* A submission row is deleted from the store behind the program's back.
DeleteRow(i) ==
    /\ i \in DOMAIN rows
    /\ rows' = [k \in DOMAIN rows \ {i} |-> rows[k]]
    /\ UNCHANGED <<nextId, queue, unfinished, pc, held, gap, slept, started, ended,
                   lastCall, reply, restarted, parseVars, tableVars>>

StartupQueueRecovered ==
    LET ids == OrderByCreatedAsc({i \in DOMAIN rows : rows[i].status = "grading"})
    IN  [k \in 1..Len(ids) |-> [id |-> ids[k], problem |-> rows[ids[k]].problem_id,
                                code |-> rows[ids[k]].code_answer]]

\* submission_queue = asyncio.Queue() at module load: the queue of a new
\* process is empty, and lifespan puts nothing into it.
StartupQueue == <<>>

\* The process is restarted: a new empty queue, a new worker task; the
\* store keeps its rows, and a call in flight dies with the old process.
Restart ==
    /\ ~restarted
    /\ restarted' = TRUE
    /\ queue' = StartupQueue
    /\ unfinished' = Len(StartupQueue)
    /\ pc' = "get"
    /\ held' = 0
    /\ gap' = -1
    /\ slept' = 0
    /\ ended' = IF pc = "call" THEN ended \cup {held} ELSE ended
    /\ UNCHANGED <<rows, nextId, started, lastCall, reply, parseVars, tableVars>>

Next ==
    \/ \E st \in RequestStudentIds, p \in RequestProblemIds : submit(st, p, RequestCode)
    \/ \E st \in RequestStudentIds, p \in RequestProblemIds : submit_unknown(st, p, RequestCode)
    \/ \E i \in Ids : check_submission(i)
    \/ WorkerGet
    \/ \E text \in GraderTexts : GraderReturns(text)
    \/ GraderRaises
    \/ WakeUp
    \/ Tick
    \/ \E i \in Ids : DeleteRow(i)
    \/ Restart

Spec == Init /\ [][Next]_vars

----------------------------------------------------------------------------
(* The worker under the scheduling the event loop gives it: no restart, a  *)
(* ready task runs, every grading call returns or raises, time passes.     *)

NextLive ==
    \/ \E st \in RequestStudentIds, p \in RequestProblemIds : submit(st, p, RequestCode)
    \/ \E st \in RequestStudentIds, p \in RequestProblemIds : submit_unknown(st, p, RequestCode)
    \/ \E i \in Ids : check_submission(i)
    \/ WorkerGet
    \/ \E text \in GraderTexts : GraderReturns(text)
    \/ GraderRaises
    \/ WakeUp
    \/ Tick
    \/ \E i \in Ids : DeleteRow(i)

LiveSpec ==
    /\ Init
    /\ [][NextLive]_vars
    /\ WF_vars(WorkerGet)
    /\ WF_vars((\E text \in GraderTexts : GraderReturns(text)) \/ GraderRaises)
    /\ WF_vars(WakeUp)
    /\ WF_vars(Tick)

----------------------------------------------------------------------------
(* The parsing of one response text, bare and wrapped in fence markers *)

FbAtoms == {"a", BT, "json"}

FbStrings == UNION {[1..n -> FbAtoms] : n \in 0..MaxFbLen}

ParseTexts ==
    {ObjText("85", s) : s \in FbStrings}
        \cup {<<"[">> \o ObjText("85", s) \o <<"]">> : s \in FbStrings}
        \cup {<<"{">> \o FeedbackPair(s) \o <<"}">> : s \in FbStrings}
        \cup {<<"[", "]">>, <<"{", "}">>, <<"{">> \o ScorePair("85") \o <<"}">>}

InitParse ==
    /\ ptext \in ParseTexts
    /\ pout = NotParsed
    /\ rows = <<>>
    /\ nextId = 1
    /\ queue = <<>>
    /\ unfinished = 0
    /\ pc = "get"
    /\ held = 0
    /\ gap = -1
    /\ slept = 0
    /\ started = {}
    /\ ended = {}
    /\ lastCall = NoCall
    /\ reply = NoReply
    /\ restarted = FALSE
    /\ courses = <<>>
    /\ classes = <<>>
    /\ students = <<>>
    /\ view = NoView

\* One parse is recorded.
ParseStep(which, res) ==
    /\ which \notin pout.done
    /\ pout' = IF which = "bare"
               THEN [pout EXCEPT !.done = @ \cup {which}, !.bare = res]
               ELSE IF which = "fenced"
               THEN [pout EXCEPT !.done = @ \cup {which}, !.fenced = res]
               ELSE [pout EXCEPT !.done = @ \cup {which}, !.listed = res]
    /\ UNCHANGED <<ptext, machineVars, tableVars>>

\* The response text is ptext itself.
ParseBare == ParseStep("bare", ParseResponse(ptext))

\* The response text is ptext wrapped in code-fence markers.
ParseFenced == ParseStep("fenced", ParseResponse(Fenced(ptext)))

\* The response text is the list whose one element is the object ptext.
ParseListed ==
    /\ At(ptext, 1) = "{"
    /\ ParseStep("listed", ParseResponse(<<"[">> \o ptext \o <<"]">>))

NextParse == ParseBare \/ ParseFenced \/ ParseListed

SpecParse == InitParse /\ [][NextParse]_vars

----------------------------------------------------------------------------
(* The classrooms under the admin requests *)

CourseNames == {"basic", "other"}             \* in the catalog, not in it
ClassNameLists == {<<>>, <<"c1">>, <<"c1", "c2">>}
ClassroomIds == 1..(MaxClasses + 1)           \* the last one is never in the store
Chapters == {"A", "B"}

NextClass ==
    \/ \E n \in CourseNames, l \in ClassNameLists : setup_system(n, l)
    \/ \E c \in ClassroomIds : activate_class(c)
    \/ \E c \in ClassroomIds, ch \in Chapters : update_progress(c, ch)

SpecClass == Init /\ [][NextClass]_vars

----------------------------------------------------------------------------
(* The views over a store of submissions *)

ViewStudentIds == {1, 2}
ViewOutcomes == {"grading", "graded", "failed"}

\* The n-th row of the store, for a student and a problem, as submit leaves
\* it and as the worker leaves it after a result or a failure.
ViewRow(n, st, p, o) ==
    LET new == NewSubmission(st, p, RequestCode, n)
    IN  IF o = "grading" THEN new
        ELSE IF o = "graded"
        THEN CompletedRow(new, ParseResponse(ObjText("85", <<"a">>)))
        ELSE FailedRow(new)

ViewTables ==
    UNION {{[i \in 1..n |-> ViewRow(i, f[i][1], f[i][2], f[i][3])] :
               f \in [1..n -> ViewStudentIds \X PROBLEMS_DICT \X ViewOutcomes]} :
           n \in 0..MaxSubs}

\* The classrooms after setup_system("basic", <<"c1", "c2">>) and a progress
\* update of the first classroom.
ViewClasses ==
    {<<[NewClassroom(1, "c1", "A") EXCEPT !.active_chapter = ch],
       NewClassroom(1, "c2", "A")>> : ch \in Chapters}

\* A store the program can have built, with the worker idle on an empty
\* queue: submissions graded, failed, or left in grading by a restart; two
\* students logged in to the classrooms.
InitView ==
    /\ rows \in ViewTables
    /\ nextId = Len(rows) + 1
    /\ courses = <<"basic">>
    /\ classes \in ViewClasses
    /\ students \in [ViewStudentIds -> {1, 2}]
    /\ view = NoView
    /\ queue = <<>>
    /\ unfinished = 0
    /\ pc = "get"
    /\ held = 0
    /\ gap = -1
    /\ slept = 0
    /\ started = {i \in DOMAIN rows : rows[i].status = "completed"}
    /\ ended = started
    /\ lastCall = NoCall
    /\ reply = NoReply
    /\ restarted = (\E i \in DOMAIN rows : rows[i].status = "grading")
    /\ ptext = <<>>
    /\ pout = NotParsed

NextView ==
    \/ \E st \in ViewStudentIds \cup {3} : get_problems(st)
    \/ \E c \in {1, 2, 3} : get_status(c)

SpecView == InitView /\ [][NextView]_vars

----------------------------------------------------------------------------
(* Properties *)

Exists(i) == i \in DOMAIN rows
Grading(i) == Exists(i) /\ rows[i].status = "grading"
Completed(i) == Exists(i) /\ rows[i].status = "completed"

\* The worker step that ends an iteration: from the dequeue on a missing
\* row, or from the end of the grading call.
IterationEnds ==
    \/ pc = "get" /\ pc' \notin {"get", "call"}
    \/ pc = "call" /\ pc' # "call" /\ restarted' = restarted

\* C1: the status of a row changes only from grading to completed: a row
\* that is completed stays completed for as long as it exists, and no step
\* writes grading into a row that exists (ids are not handed out twice).
C1_StatusOnlyCompletes ==
    [][\A i \in DOMAIN rows \cap DOMAIN rows' :
          /\ rows[i].status = "completed" => rows'[i].status = "completed"
          /\ rows'[i].status = "grading" => rows[i].status = "grading"]_vars

\* A row is completed while the worker has the grading call of a later
\* submission in flight.
C1_Witness == pc = "call" /\ \E i \in Ids : Completed(i) /\ i < held

\* C2: every completed submission has an integer score from 0 to 100.
C2_CompletedScoreInRange ==
    \A i \in DOMAIN rows :
        rows[i].status = "completed" =>
            rows[i].score.t = "num" /\ rows[i].score.n >= 0 /\ rows[i].score.n <= 100

\* C3: under LiveSpec (no restart, the worker runs when it can, every call
\* returns or raises, time passes) a submission in grading is eventually
\* completed, unless its own row is deleted.
C3_EventuallyCompleted ==
    \A i \in Ids : Grading(i) ~> (~Exists(i) \/ Completed(i))

\* C4: the worker step that dequeues a job whose row is missing starts no
\* grading call, leaves the rows alone, removes the job and leaves the
\* worker alive, asleep before its next dequeue.
C4_MissingRowSkipped ==
    [][(pc = "get" /\ pc' # "get" /\ queue # <<>> /\ ~Exists(QueueGet(queue).item.id))
          => /\ pc' = "sleep"
             /\ rows' = rows
             /\ started' = started
             /\ queue' = QueueGet(queue).rest]_vars

\* C5: jobs are enqueued in the order of their ids.  When the call of b has
\* begun, the call of every earlier a is over, or a got no call and is not
\* in the queue any more (so it never gets one); at most one call is in
\* flight, the one of the job the worker holds.
C5_FifoOneCallAtATime ==
    /\ \A a, b \in Ids :
          (a < b /\ b \in started) =>
              (a \in ended \/ (a \notin started /\ a \notin QueuedIds))
    /\ Cardinality(started \ ended) <= 1
    /\ started \ ended = IF pc = "call" THEN {held} ELSE {}

\* The call of the second submission is in flight after the first has ended.
C5_Witness == pc = "call" /\ held = 2 /\ 1 \in ended

\* The rate floor alone: a grading call begins no sooner than the interval
\* after the call before it, of the same process run, ended.
RateFloorBetweenCalls ==
    [][(pc # "call" /\ pc' = "call") => (gap = -1 \/ gap >= RateLimitDelay)]_vars

\* C6: a grading call begins no sooner than the interval after the call
\* before it ended, and every iteration of the worker, the failed and the
\* skipped too, ends in the sleep of the full interval.
C6_RateFloorEveryIteration ==
    [][/\ (pc # "call" /\ pc' = "call") => (gap = -1 \/ gap >= RateLimitDelay)
       /\ IterationEnds => pc' = "sleep"
       /\ (pc = "sleep" /\ pc' = "get" /\ restarted' = restarted)
              => slept >= RateLimitDelay]_vars

\* What the call that ended last was answered with.
LastRaised == lastCall.id # 0 /\ lastCall.raised
LastText == lastCall.id # 0 /\ ~lastCall.raised
LastParseFails == LastText /\ ~ParseResponse(lastCall.text).ok
LastDoc == JsonLoads(StripFence(lastCall.text))
LastMissesField ==
    /\ LastText
    /\ LastDoc.ok
    /\ LastDoc.kind = "obj"
    /\ LastDoc.item.obj.has # {"score", "feedback"}

FailureResult(i) ==
    /\ rows[i].status = "completed"
    /\ rows[i].score = Num(0)
    /\ rows[i].ai_feedback = BUSY_MSG

\* C7 as stated: after a call that raised, or whose response did not parse
\* or lacks a field, the row, if it exists, is completed with score 0 and
\* the busy message.
C7_AnyFailureGivesBusy ==
    (LastRaised \/ LastParseFails \/ LastMissesField)
        => (Exists(lastCall.id) => FailureResult(lastCall.id))

\* C7 amended: after a call that raised, or whose response made a statement
\* of the try block raise (no JSON, or neither an object nor a list that
\* starts with one), the row, if it exists, is completed with score 0 and
\* the busy message.
C7_ExceptionGivesBusy ==
    (LastRaised \/ LastParseFails)
        => (Exists(lastCall.id) => FailureResult(lastCall.id))

\* Both kinds of failure left their row completed with the failure result.
C7_Witness ==
    /\ LastParseFails
    /\ Exists(lastCall.id)
    /\ \E i \in Ids : i # lastCall.id /\ Exists(i) /\ rows[i].ai_feedback = BUSY_MSG

JobsFor(i) ==
    Cardinality({k \in 1..Len(queue) : queue[k].id = i})
        + (IF pc = "call" /\ held = i THEN 1 ELSE 0)

\* C8: without a restart, every row in grading has exactly one job, in the
\* queue or held by the worker.
C8_OneJobPerGrading ==
    ~restarted => \A i \in DOMAIN rows : rows[i].status = "grading" => JobsFor(i) = 1

\* One grading row has its job in the worker's hands, another in the queue.
C8_Witness ==
    /\ ~restarted
    /\ pc = "call"
    /\ Grading(held)
    /\ \E i \in QueuedIds : Grading(i)

ScoreAtoms == NumAtoms \cup {"null"}
AtomValue(a) == IF a = "null" THEN Null ELSE Num(NumVal(a))

\* The text is the JSON object with the members score and feedback, in this
\* order: the score atom is the 6th atom, the feedback string the atoms
\* from the 13th to the last but two.
ScoreAtomOf(text) == text[6]
FeedbackOf(text) == SubSeq(text, 13, Len(text) - 2)
IsScoreFeedbackObject(text) ==
    /\ Len(text) >= 14
    /\ ScoreAtomOf(text) \in ScoreAtoms
    /\ \A k \in 13..(Len(text) - 2) : text[k] # Q
    /\ text = ObjText(ScoreAtomOf(text), FeedbackOf(text))

\* C9: a submit that is accepted answers with status grading; after the
\* call answered by the JSON object with score s and feedback f, the row,
\* if it exists, is completed with s and f; a completed row never changes;
\* and a poll answers with the row as the store has it.
C9_PollReturnsResult ==
    /\ []((reply.op = "submit" /\ reply.code = 200) => reply.body.status = "grading")
    /\ []((LastText /\ IsScoreFeedbackObject(lastCall.text) /\ Exists(lastCall.id))
            => /\ rows[lastCall.id].status = "completed"
               /\ rows[lastCall.id].score = AtomValue(ScoreAtomOf(lastCall.text))
               /\ rows[lastCall.id].ai_feedback = Str(FeedbackOf(lastCall.text)))
    /\ [][/\ \A i \in DOMAIN rows \cap DOMAIN rows' :
                rows[i].status = "completed" => rows'[i] = rows[i]
          /\ (reply' # reply /\ reply'.op = "poll")
                => IF reply'.id \in DOMAIN rows'
                   THEN reply'.code = 200 /\ reply'.body = rows'[reply'.id]
                   ELSE reply'.code = 404]_vars

\* A poll has answered with the result of an object response whose feedback
\* holds fence markers.
C9_Witness ==
    /\ reply.op = "poll"
    /\ reply.code = 200
    /\ reply.id = lastCall.id
    /\ LastText
    /\ lastCall.text = ObjText("85", FENCE \o <<"a">>)
    /\ reply.body.status = "completed"
    /\ reply.body.ai_feedback = Str(FENCE \o <<"a">>)

\* C10: under SpecParse, the text parsed as it is and the text parsed in
\* code-fence markers give the same score and feedback.
C10_FenceMakesNoDifference ==
    {"bare", "fenced"} \subseteq pout.done => pout.bare = pout.fenced

\* C11: under SpecParse, the list whose one element is an object gives what
\* the object alone gives; the empty list gives score 0 and the default
\* feedback; an object without score gives score 0 and its own feedback; an
\* object without feedback gives its own score and the default feedback;
\* and in each of these cases no statement of the try block raises.
C11_ShapeTolerance ==
    /\ {"bare", "listed"} \subseteq pout.done
          => pout.bare.ok /\ pout.listed = pout.bare
    /\ ("bare" \in pout.done /\ ptext = <<"[", "]">>)
          => pout.bare = [ok |-> TRUE, score |-> Num(0), feedback |-> DEFAULT_FEEDBACK]
    /\ \A s \in FbStrings :
          ("bare" \in pout.done /\ ptext = <<"{">> \o FeedbackPair(s) \o <<"}">>)
             => pout.bare = [ok |-> TRUE, score |-> Num(0), feedback |-> Str(s)]
    /\ ("bare" \in pout.done /\ ptext = <<"{">> \o ScorePair("85") \o <<"}">>)
          => pout.bare = [ok |-> TRUE, score |-> Num(85), feedback |-> DEFAULT_FEEDBACK]

\* The object with score and feedback has been parsed alone and as the one
\* element of a list, and the list gave the object's score and feedback.
C11_Witness ==
    /\ {"bare", "listed"} \subseteq pout.done
    /\ ptext = ObjText("85", <<"a">>)
    /\ pout.listed = [ok |-> TRUE, score |-> Num(85), feedback |-> Str(<<"a">>)]

\* The submissions of a student for a problem.
SubmissionsOf(st, p) ==
    {i \in DOMAIN rows : rows[i].student_id = st /\ rows[i].problem_id = p}

\* The cell of a view shows the status, score, feedback and code of row i.
Shows(cell, i) ==
    /\ cell.has
    /\ cell.status = rows[i].status
    /\ cell.score = rows[i].score
    /\ cell.feedback = rows[i].ai_feedback
    /\ cell.code = rows[i].code_answer

\* C12: under SpecView, a view that was served lists every problem of the
\* active chapter for its student (get_problems) or for each student of
\* its classroom (get_status), and for a student and problem with
\* submissions it shows the submission created last, whatever the statuses
\* of the submissions are.
C12_ViewShowsLatest ==
    /\ (view.op = "problems" /\ view.code = 200)
          => DOMAIN view.cells = {view.who} \X TargetProblems(students[view.who])
    /\ (view.op = "status" /\ view.who \in DOMAIN classes)
          => DOMAIN view.cells =
                {s \in DOMAIN students : students[s] = view.who} \X TargetProblems(view.who)
    /\ \A k \in DOMAIN view.cells :
          SubmissionsOf(k[1], k[2]) # {}
             => \E i \in SubmissionsOf(k[1], k[2]) :
                   /\ \A j \in SubmissionsOf(k[1], k[2]) :
                         rows[j].created_at <= rows[i].created_at
                   /\ Shows(view.cells[k], i)

\* A student has two completed submissions for one problem, the first
\* graded with a score and the second failed, and get_status shows the
\* second.
C12_Witness ==
    /\ view.op = "status"
    /\ <<1, 1>> \in DOMAIN view.cells
    /\ SubmissionsOf(1, 1) = {1, 2}
    /\ rows[1].status = "completed" /\ rows[1].score = Num(85)
    /\ rows[2].status = "completed" /\ rows[2].score = Num(0)
    /\ view.cells[<<1, 1>>].id = 2
    /\ view.cells[<<1, 1>>].score = Num(0)
    /\ view.cells[<<1, 1>>].feedback = BUSY_MSG

\* C13: in every state, whatever the worker does and however long the
\* queue is, a submit for a catalog problem can be served (as long as the
\* bound on submissions allows one more) and so can a poll; the submit
\* step stores the new row in grading, appends its job to the queue and
\* leaves the worker where it is.
C13_SubmitNeverWaits ==
    /\ [](nextId <= MaxSubs => ENABLED submit(1, 1, RequestCode))
    /\ [](\A i \in Ids : ENABLED check_submission(i))
    /\ [][nextId' = nextId + 1
            => /\ nextId \notin DOMAIN rows
               /\ nextId \in DOMAIN rows'
               /\ rows'[nextId].status = "grading"
               /\ \A i \in DOMAIN rows : rows'[i] = rows[i]
               /\ Len(queue') = Len(queue) + 1
               /\ SubSeq(queue', 1, Len(queue)) = queue
               /\ queue'[Len(queue')].id = nextId
               /\ reply'.op = "submit" /\ reply'.code = 200 /\ reply'.id = nextId
               /\ pc' = pc /\ held' = held]_vars

\* The grading call for the first submission is in flight and a submit has
\* been answered for the second, whose job is queued.
C13_Witness ==
    /\ pc = "call"
    /\ held = 1
    /\ reply.op = "submit" /\ reply.code = 200 /\ reply.id = 2
    /\ Grading(2)
    /\ 2 \in QueuedIds

\* C14: a grading call begins only for a submission for which none has
\* begun before; a submission whose call has begun has no job in the queue
\* again; and the queue grows only by the one job of a submit, which
\* carries the id of the row that submit has just created.
C14_OneCallPerSubmission ==
    /\ [](\A i \in started : i \notin QueuedIds)
    /\ [][/\ (pc # "call" /\ pc' = "call")
              => held' \notin started /\ started' = started \cup {held'}
          /\ (pc = "call" /\ pc' = "call") => held' = held
          /\ Len(queue') > Len(queue)
              => /\ nextId' = nextId + 1
                 /\ nextId \notin DOMAIN rows /\ nextId \notin started
                 /\ queue' = Append(queue, queue'[Len(queue')])
                 /\ queue'[Len(queue')].id = nextId]_vars

\* The call for the first submission has raised, the row is completed
\* with the failure result, no job for it is queued, and the worker is in
\* the call for the second submission.
C14_Witness ==
    /\ lastCall.id = 1 /\ lastCall.raised
    /\ Completed(1) /\ rows[1].ai_feedback = BUSY_MSG
    /\ 1 \notin QueuedIds
    /\ pc = "call" /\ held = 2

\* A row in grading for which the restarted process has no job.
Stuck(i) == restarted /\ Grading(i) /\ i \notin QueuedIds /\ held # i

\* C15: the restart leaves every row that is in grading in grading and
\* without a job, and such a row stays so in every later step for as long
\* as it exists.
C15_GradingAtRestartStaysGrading ==
    [][/\ (~restarted /\ restarted')
          => \A i \in Ids : Grading(i) => Stuck(i)'
       /\ \A i \in Ids : Stuck(i) => (Exists(i)' => Stuck(i)')]_vars

\* The first submission was in grading at the restart and still is, while
\* the second, submitted to the new process, has been graded.
C15_Witness ==
    /\ Stuck(1)
    /\ 1 \notin ended
    /\ Completed(2) /\ 2 \in ended

\* C16: a row in grading has no score and carries the placeholder message
\* of submit; and a step changes the score or the feedback of a row only
\* when it takes the row from grading to completed.
C16_GradingHasNoResult ==
    /\ [](\A i \in DOMAIN rows :
            rows[i].status = "grading"
               => rows[i].score = Null /\ rows[i].ai_feedback = QUEUED_MSG)
    /\ [][\A i \in DOMAIN rows \cap DOMAIN rows' :
            (rows'[i].score # rows[i].score \/ rows'[i].ai_feedback # rows[i].ai_feedback)
               => rows[i].status = "grading" /\ rows'[i].status = "completed"]_vars

\* The first submission is completed with its score while the second,
\* whose grading call is in flight, is in grading without a result.
C16_Witness ==
    /\ Completed(1) /\ rows[1].score = Num(85)
    /\ pc = "call" /\ held = 2
    /\ Grading(2) /\ rows[2].score = Null /\ rows[2].ai_feedback = QUEUED_MSG

\* C17: in every step, a row that exists before and after keeps its
\* student_id, problem_id, code_answer and created_at under its id; and a
\* row changes only in the step that ends the grading call the worker
\* holds for it, so that step leaves every other row as it is.
C17_OnlyWorkerWritesItsRow ==
    [][\A i \in DOMAIN rows \cap DOMAIN rows' :
          /\ rows'[i].student_id = rows[i].student_id
          /\ rows'[i].problem_id = rows[i].problem_id
          /\ rows'[i].code_answer = rows[i].code_answer
          /\ rows'[i].created_at = rows[i].created_at
          /\ rows'[i] # rows[i] => pc = "call" /\ held = i /\ pc' # "call"]_vars

\* The call for the second submission has failed and the first
\* submission still has the score of its own call.
C17_Witness ==
    /\ lastCall.id = 2 /\ lastCall.raised
    /\ Completed(2) /\ rows[2].score = Num(0) /\ rows[2].ai_feedback = BUSY_MSG
    /\ Completed(1) /\ rows[1].score = Num(85)
    /\ rows[1].created_at = 1 /\ rows[2].created_at = 2

\* C18: the unfinished-task counter of the queue equals the number of
\* jobs that are queued or held by the worker, it is never negative, and
\* task_done never raises (the worker task is never ended by it).
C18_TaskDoneOncePerJob ==
    /\ unfinished = Len(queue) + (IF pc = "call" THEN 1 ELSE 0)
    /\ unfinished >= 0
    /\ pc # "dead"

\* C19: a submit for a problem_id that the catalog does not have is
\* answered with 404 and never accepted; the step that answers 404 changes
\* no row, no job, no counter and nothing of the worker; so every row and
\* every job is for a catalog problem.
C19_UnknownProblemRejected ==
    /\ [](\A p \in RequestProblemIds \ PROBLEMS_DICT :
            /\ ENABLED submit_unknown(1, p, RequestCode)
            /\ ~ENABLED submit(1, p, RequestCode))
    /\ [](/\ \A i \in DOMAIN rows : rows[i].problem_id \in PROBLEMS_DICT
          /\ \A j \in Range(queue) : j.problem \in PROBLEMS_DICT)
    /\ [][(reply' # reply /\ reply'.op = "submit" /\ reply'.code = 404)
            => UNCHANGED <<rows, nextId, queue, unfinished, pc, held, started>>]_vars

\* One submit has been accepted and a later one for an unknown problem
\* has been answered with 404: the store and the queue hold the one
\* submission.
C19_Witness ==
    /\ reply.op = "submit" /\ reply.code = 404
    /\ DOMAIN rows = {1}
    /\ nextId = 2
    /\ Len(queue) = 1 /\ unfinished = 1

\* The classrooms that are active.
ActiveClasses == {c \in DOMAIN classes : classes[c].is_active}

\* C20: under SpecClass, at most one classroom is active in every state;
\* and a classroom that is active after a step and was not before (or did
\* not exist before) was there inactive before the step and is the only
\* active one after it.
C20_AtMostOneActive ==
    /\ [](Cardinality(ActiveClasses) <= 1)
    /\ [][\A c \in ActiveClasses' \ ActiveClasses :
            c \in DOMAIN classes /\ ActiveClasses' = {c}]_vars

\* Three classrooms exist, the second is the active one, and the first is
\* on another chapter than the one it was set up with.
C20_Witness ==
    /\ Len(classes) = 3
    /\ ActiveClasses = {2}
    /\ classes[1].active_chapter = "B"

====
